---- MODULE Spec2Model ----
(***************************************************************************)
(* A model of pytorch/inference.py: ModelWrapper, the inference wrapper    *)
(* around a Transformer-XL language model, its vocabulary and its          *)
(* sentencepiece tokenizer.                                                *)
(*                                                                         *)
(* Strings are sequences of one-character strings; a token (a subword      *)
(* piece or a vocabulary symbol) is such a sequence too.  "_" stands for   *)
(* the sentencepiece whitespace meta symbol U+2581.  Indices into Python   *)
(* lists and tensors are 0-based, as in the source.                        *)
(***************************************************************************)
EXTENDS Integers, Sequences, FiniteSets, TLC

(* ------------------------------------------------------------------ *)
(* Bounds of the model                                                 *)
(* ------------------------------------------------------------------ *)
MaxTextLen == 3
MaxTokens == 3
MaxSteps == 2
MaxTgtLen == 2

\* the characters texts are made of
Chars == {"a", " ", "\n"}
\* the values of top_k the calls are made with
TopKs == {0, 1, 3, 5}

(* ------------------------------------------------------------------ *)
(* Python helpers                                                      *)
(* ------------------------------------------------------------------ *)
Min(a, b) == IF a < b THEN a ELSE b

\* s[lo:hi] for 0 <= lo
PySlice(s, lo, hi) == SubSeq(s, lo + 1, Min(hi, Len(s)))

\* s[n:] for 0 <= n
PyFrom(s, n) == SubSeq(s, n + 1, Len(s))

\* s[-k:]: -0 is 0, so s[-0:] is s[0:], the whole list
PyLast(s, k) ==
    IF k = 0 THEN s
    ELSE IF k > 0 THEN SubSeq(s, (IF k >= Len(s) THEN 0 ELSE Len(s) - k) + 1, Len(s))
    ELSE SubSeq(s, Min(0 - k, Len(s)) + 1, Len(s))

\* reversed(s)
Reversed(s) == [j \in 1..Len(s) |-> s[Len(s) + 1 - j]]

RECURSIVE Concat(_)
\* the concatenation of a sequence of sequences (list.extend / torch.cat)
Concat(ss) == IF ss = <<>> THEN <<>> ELSE Head(ss) \o Concat(Tail(ss))

RECURSIVE Split(_)
\* text.split('\n')
Split(s) ==
    IF \A j \in 1..Len(s) : s[j] # "\n" THEN <<s>>
    ELSE LET p == CHOOSE j \in 1..Len(s) :
                     s[j] = "\n" /\ \A q \in 1..(j - 1) : s[q] # "\n"
         IN  <<SubSeq(s, 1, p - 1)>> \o Split(SubSeq(s, p + 1, Len(s)))

IsSpace(c) == c \in {" ", "\n"}

RECURSIVE LStrip(_)
LStrip(s) == IF s # <<>> /\ IsSpace(Head(s)) THEN LStrip(Tail(s)) ELSE s

RECURSIVE RStrip(_)
RStrip(s) ==
    IF s # <<>> /\ IsSpace(s[Len(s)]) THEN RStrip(SubSeq(s, 1, Len(s) - 1)) ELSE s

\* line.strip()
Strip(s) == RStrip(LStrip(s))

(* ------------------------------------------------------------------ *)
(* The vocabulary (utils.vocabulary.Vocab)                             *)
(* ------------------------------------------------------------------ *)
\* vocab.EOS, the end-of-sequence marker
EOS == <<"<", "e", "o", "s", ">">>

\* the sentencepiece control piece </s>
CtrlEnd == <<"<", "/", "s", ">">>

\* vocab.idx2sym: the symbol table, index = id
idx2sym == <<EOS, CtrlEnd, <<"_", "a">>, <<"a">>>>

\* len(self.vocab)
VocabSize == Len(idx2sym)

\* vocab.idx2sym[idx], idx 0-based
Idx2Sym(idx) == idx2sym[idx + 1]

\* vocab.sym2idx[sym]
Sym2Idx(sym) == (CHOOSE j \in 1..Len(idx2sym) : idx2sym[j] = sym) - 1

\* vocab.convert_to_tensor(tokens): one id per token, in order
ConvertToTensor(toks) == [j \in 1..Len(toks) |-> Sym2Idx(toks[j])]

(* ------------------------------------------------------------------ *)
(* The tokenizer (sentencepiece.SentencePieceProcessor)                *)
(* ------------------------------------------------------------------ *)
\* the pieces of the tokenizer model; any other piece is unknown to it
SpPieces == {CtrlEnd, <<"_", "a">>, <<"a">>}

\* control pieces are invisible in decoded text
IsControl(p) == p = CtrlEnd

RECURSIVE Segment(_, _)
\* the pieces of the normalized line: whitespace runs collapse into the "_"
\* that starts the next word, a dummy "_" starts the first word
Segment(s, bos) ==
    IF s = <<>> THEN <<>>
    ELSE IF IsSpace(Head(s)) THEN Segment(Tail(s), TRUE)
    ELSE <<(IF bos THEN <<"_">> ELSE <<>>) \o <<Head(s)>>>> \o Segment(Tail(s), FALSE)

\* sp_processor.encode_as_pieces(line)
EncodeAsPieces(line) == Segment(line, TRUE)

\* the surface of one piece, given whether the decoded text is still empty:
\* a control piece has none, a piece the tokenizer model does not know is
\* kept as it is, and a leading "_" is dropped at the start of the text
DecodeSentencePiece(p, is_bos_ws) ==
    IF IsControl(p) THEN <<>>
    ELSE IF p \notin SpPieces THEN p
    ELSE LET q == IF is_bos_ws /\ p # <<>> /\ Head(p) = "_" THEN Tail(p) ELSE p
         IN  [j \in 1..Len(q) |-> IF q[j] = "_" THEN " " ELSE q[j]]

RECURSIVE DecodeFrom(_, _)
DecodeFrom(pieces, txt) ==
    IF pieces = <<>> THEN txt
    ELSE DecodeFrom(Tail(pieces), txt \o DecodeSentencePiece(Head(pieces), txt = <<>>))

\* sp_processor.DecodePieces(pieces)
DecodePieces(pieces) == DecodeFrom(pieces, <<>>)

(* ------------------------------------------------------------------ *)
(* The language model (mem_transformer.MemTransformerLM)               *)
(* ------------------------------------------------------------------ *)
\* the rows of log-probabilities the model can produce (scaled to integers)
LogProbTable ==
    << <<-1, -2, -3, -4>>,
       <<-3, -1, -2, -2>>,
       <<-2, -2, -2, -2>>,
       <<-4, -3, -1, -2>>,
       <<-2, -4, -3, -1>> >>

RECURSIVE SumIds(_)
SumIds(ctx) == IF ctx = <<>> THEN 0 ELSE Head(ctx) + 1 + SumIds(Tail(ctx))

\* the distribution after the context ctx (a sequence of ids)
LogProbRow(ctx) == LogProbTable[(SumIds(ctx) % Len(LogProbTable)) + 1]

\* self.model(xs.unsqueeze(0), None, *mems): one row per position of xs,
\* conditioned on the memory and the positions before it, and the new memory
ModelForward(xs, m) ==
    [log_probs |-> [j \in 1..Len(xs) |-> LogProbRow(m \o SubSeq(xs, 1, j))],
     mems |-> m \o xs]

(* ------------------------------------------------------------------ *)
(* torch helpers                                                       *)
(* ------------------------------------------------------------------ *)
\* torch.argsort(row): the orders of the indices that sort row ascending
\* (the order of equal elements is not specified)
Argsort(row) ==
    {o \in [1..Len(row) -> 0..(Len(row) - 1)] :
        /\ \A a, b \in 1..Len(row) : a # b => o[a] # o[b]
        /\ \A a \in 1..(Len(row) - 1) : row[o[a] + 1] <= row[o[a + 1] + 1]}

\* log_probs[top_indices]
Gather(row, indices) == [j \in 1..Len(indices) |-> row[indices[j] + 1]]

\* exp of a scaled log-probability: positive and increasing
Exp(lp) == 2 ^ (lp + 8)

\* torch.multinomial(probs, 1).item(): a position of positive weight
Multinomial(probs) == {j \in 0..(Len(probs) - 1) : probs[j + 1] > 0}

(* ------------------------------------------------------------------ *)
(* The state                                                           *)
(* ------------------------------------------------------------------ *)
VARIABLES
    add_eos,         \* vocab.add_eos
    add_double_eos,  \* vocab.add_double_eos
    tgt_len,         \* model.tgt_len
    op,              \* the method the caller called
    pc,              \* the position of the control in it
    text,            \* the argument text
    top_k,           \* the argument top_k
    lines,           \* tokenize: lines
    i,               \* tokenize: the loop index
    tokens,          \* tokenize: tokens; sample_text_iter: the held sequence
    eos_at,          \* the positions of tokens where tokenize appended EOS
    ptokens,         \* predict_log_probs: the argument tokens
    all_xs,          \* predict_log_probs: all_xs
    idx,             \* predict_log_probs: the loop index
    mems,            \* predict_log_probs: mems
    all_log_probs,   \* predict_log_probs: all_log_probs
    log_probs,       \* the matrix predict_log_probs returned
    calls,           \* the calls of predict_log_probs that passed validation
    n_convert,       \* the calls of vocab.convert_to_tensor
    fwd,             \* the forward passes of the model, in order
    next_token,      \* sample_text_iter: next_token
    init_tokens,     \* sample_text_iter: <<what tokenize(text) returned>>, once it has
    sampled,         \* sample_text_iter: the tokens sampled, in order
    fragments,       \* sample_text_iter: the fragments yielded, in order
    result,          \* <<the value returned to the caller>>, once it has returned
    error            \* the exception raised to the caller

config == <<add_eos, add_double_eos, tgt_len>>
args == <<text, top_k>>
tok_vars == <<lines, i, tokens, eos_at>>
pred_vars == <<ptokens, all_xs, idx, mems, all_log_probs, log_probs, calls, n_convert, fwd>>
iter_vars == <<next_token, init_tokens, sampled, fragments>>
vars == <<config, op, pc, args, tok_vars, pred_vars, iter_vars, result, error>>

\* the texts the calls are made with
Texts == UNION {[1..n -> Chars] : n \in 0..MaxTextLen}

\* the token sequences the calls are made with
Symbols == {idx2sym[j] : j \in 1..Len(idx2sym)}
TokenLists == UNION {[1..n -> Symbols] : n \in 0..MaxTokens}

None == "None"

Init ==
    /\ add_eos \in BOOLEAN
    /\ add_double_eos \in BOOLEAN
    /\ tgt_len \in 1..MaxTgtLen
    /\ op = "none"
    /\ pc = "idle"
    /\ text = <<>>
    /\ top_k = 0
    /\ lines = <<>>
    /\ i = 0
    /\ tokens = <<>>
    /\ eos_at = {}
    /\ ptokens = <<>>
    /\ all_xs = <<>>
    /\ idx = 0
    /\ mems = <<>>
    /\ all_log_probs = <<>>
    /\ log_probs = <<>>
    /\ calls = 0
    /\ n_convert = 0
    /\ fwd = <<>>
    /\ next_token = None
    /\ init_tokens = <<>>
    /\ sampled = <<>>
    /\ fragments = <<>>
    /\ result = <<>>
    /\ error = None

(* ------------------------------------------------------------------ *)
(* tokenize                                                            *)
(* ------------------------------------------------------------------ *)
\* text.splitlines() in place of text.split('\n'): no line for an empty text
LinesSplitlines(t) == IF t = <<>> THEN <<>> ELSE Split(t)

\* lines = text.split('\n')
Lines(t) == Split(t)

\* the marker appended after the last line too
AppendsEOSAlways(flag, index, n_lines) == flag

\* the condition under which the loop body appends the marker
AppendsEOS(flag, index, n_lines) == flag /\ index # n_lines - 1

\* a call of tokenize(text)
CallTokenize ==
    /\ pc = "idle"
    /\ \E t \in Texts :
        /\ text' = t
        /\ lines' = Lines(t)
    /\ op' = "tokenize"
    /\ pc' = "tokenize"
    /\ i' = 0
    /\ tokens' = <<>>
    /\ UNCHANGED <<config, top_k, eos_at, pred_vars, iter_vars, result, error>>

\* one iteration of the loop over the lines
TokenizeLine ==
    /\ pc = "tokenize"
    /\ i < Len(lines)
    /\ LET line == Strip(lines[i + 1])
           extended == tokens \o EncodeAsPieces(line)
       IN  IF add_double_eos
           THEN /\ tokens' = extended
                /\ error' = "AssertionError"
                /\ pc' = "raised"
                /\ UNCHANGED <<i, eos_at>>
           ELSE /\ IF AppendsEOS(add_eos, i, Len(lines))
                   THEN /\ tokens' = Append(extended, EOS)
                        /\ eos_at' = eos_at \cup {Len(extended) + 1}
                   ELSE /\ tokens' = extended
                        /\ UNCHANGED eos_at
                /\ i' = i + 1
                /\ UNCHANGED <<pc, error>>
    /\ UNCHANGED <<config, op, args, lines, pred_vars, iter_vars, result>>

\* the loop is over: return tokens, to the caller or to sample_text_iter,
\* which goes on to its first sample_next(tokens)
TokenizeReturn ==
    /\ pc = "tokenize"
    /\ i = Len(lines)
    /\ IF op = "tokenize"
       THEN /\ result' = <<tokens>>
            /\ pc' = "returned"
            /\ UNCHANGED <<ptokens, init_tokens>>
       ELSE /\ init_tokens' = <<tokens>>
            /\ ptokens' = tokens
            /\ pc' = "predict"
            /\ UNCHANGED result
    /\ UNCHANGED <<config, op, args, tok_vars, all_xs, idx, mems, all_log_probs,
                   log_probs, calls, n_convert, fwd, next_token, sampled,
                   fragments, error>>

(* ------------------------------------------------------------------ *)
(* predict_log_probs                                                   *)
(* ------------------------------------------------------------------ *)
\* a call of predict_log_probs(tokens)
CallPredictLogProbs ==
    /\ pc = "idle"
    /\ \E toks \in TokenLists : ptokens' = toks
    /\ op' = "predict_log_probs"
    /\ pc' = "predict"
    /\ UNCHANGED <<config, args, tok_vars, all_xs, idx, mems, all_log_probs,
                   log_probs, calls, n_convert, fwd, iter_vars, result, error>>

\* the validation left out
NotTokensUnchecked(toks) == FALSE

\* not tokens: the list is empty
NotTokens(toks) == toks = <<>>

\* the memory the loop starts with
InitialMems(previous) == <<>>

\* the slice one element short: all_xs[idx: idx + batch_size - 1]
ChunkShort(xs, index, batch_size) == PySlice(xs, index, index + batch_size - 1)

\* the slice of all_xs of one iteration
Chunk(xs, index, batch_size) == PySlice(xs, index, index + batch_size)

\* the index of the next iteration of range(0, len(all_xs), batch_size)
NextIdx(index, batch_size) == index + batch_size

\* the returned memory dropped: log_probs, _ = self.model(...)
CarriedMemsDropped(old, returned) == old

\* the memory the next iteration gets, given what the forward pass returned
CarriedMems(old, returned) == returned

\* the validation, the conversion to ids and the start of the loop
PredictEnter ==
    /\ pc = "predict"
    /\ IF NotTokens(ptokens)
       THEN /\ error' = "ValueError"
            /\ pc' = "raised"
            /\ UNCHANGED <<all_xs, idx, mems, all_log_probs, calls, n_convert>>
       ELSE /\ all_xs' = ConvertToTensor(ptokens)
            /\ n_convert' = n_convert + 1
            /\ calls' = calls + 1
            /\ all_log_probs' = <<>>
            /\ mems' = InitialMems(mems)
            /\ idx' = 0
            /\ pc' = "chunks"
            /\ UNCHANGED error
    /\ UNCHANGED <<config, op, args, tok_vars, ptokens, log_probs, fwd, iter_vars,
                   result>>

\* one iteration of the loop: the forward pass of one chunk
PredictChunk ==
    /\ pc = "chunks"
    /\ idx < Len(all_xs)
    /\ LET xs == Chunk(all_xs, idx, tgt_len)
           out == ModelForward(xs, mems)
       IN  /\ all_log_probs' = Append(all_log_probs, out.log_probs)
           /\ mems' = CarriedMems(mems, out.mems)
           /\ fwd' = Append(fwd, [call |-> calls, at |-> idx, xs |-> xs,
                                  mems_in |-> mems, mems_out |-> out.mems,
                                  log_probs |-> out.log_probs])
    /\ idx' = NextIdx(idx, tgt_len)
    /\ UNCHANGED <<config, op, pc, args, tok_vars, ptokens, all_xs, log_probs,
                   calls, n_convert, iter_vars, result, error>>

\* the loop is over: return torch.cat(all_log_probs), to the caller or to
\* next_top_k or sample_next (torch.cat raises on an empty list of tensors)
PredictReturn ==
    /\ pc = "chunks"
    /\ idx >= Len(all_xs)
    /\ IF all_log_probs = <<>>
       THEN /\ error' = "RuntimeError"
            /\ pc' = "raised"
            /\ UNCHANGED <<log_probs, result>>
       ELSE /\ log_probs' = Concat(all_log_probs)
            /\ IF op = "predict_log_probs"
               THEN /\ result' = <<Concat(all_log_probs)>>
                    /\ pc' = "returned"
               ELSE /\ pc' = IF op = "next_top_k" THEN "top_k" ELSE "sample"
                    /\ UNCHANGED result
            /\ UNCHANGED error
    /\ UNCHANGED <<config, op, args, tok_vars, ptokens, all_xs, idx, mems,
                   all_log_probs, calls, n_convert, fwd, iter_vars>>

(* ------------------------------------------------------------------ *)
(* next_top_k and sample_next                                          *)
(* ------------------------------------------------------------------ *)
\* matrix[-1]
LastRow(matrix) == matrix[Len(matrix)]

\* torch.argsort(log_probs)[-top_k:], given one order argsort returned
TopIndices(order, k) == PyLast(order, k)

\* a call of next_top_k(tokens, top_k)
CallNextTopK ==
    /\ pc = "idle"
    /\ \E toks \in TokenLists : ptokens' = toks
    /\ \E k \in TopKs : top_k' = k
    /\ op' = "next_top_k"
    /\ pc' = "predict"
    /\ UNCHANGED <<config, text, tok_vars, all_xs, idx, mems, all_log_probs,
                   log_probs, calls, n_convert, fwd, iter_vars, result, error>>

\* next_top_k after predict_log_probs returned
NextTopK ==
    /\ pc = "top_k"
    /\ \E order \in Argsort(LastRow(log_probs)) :
        LET top_indices == TopIndices(order, top_k)
            top_log_probs == Gather(LastRow(log_probs), top_indices)
        IN  result' = <<Reversed([j \in 1..Len(top_indices) |->
                            <<Idx2Sym(top_indices[j]), top_log_probs[j]>>])>>
    /\ pc' = "returned"
    /\ UNCHANGED <<config, op, args, tok_vars, pred_vars, iter_vars, error>>

\* a call of sample_next(tokens, top_k)
CallSampleNext ==
    /\ pc = "idle"
    /\ \E toks \in TokenLists : ptokens' = toks
    /\ \E k \in TopKs : top_k' = k
    /\ op' = "sample_next"
    /\ pc' = "predict"
    /\ UNCHANGED <<config, text, tok_vars, all_xs, idx, mems, all_log_probs,
                   log_probs, calls, n_convert, fwd, iter_vars, result, error>>

\* the symbols sample_next can return, given the last row
Samples(row, k) ==
    {Idx2Sym(TopIndices(order, k)[j + 1]) :
        <<order, j>> \in {<<o, p>> \in Argsort(row) \X (0..(Len(row) - 1)) :
            LET top_indices == TopIndices(o, k)
                top_probs == [q \in 1..Len(top_indices) |->
                                 Exp(Gather(row, top_indices)[q])]
            IN  p \in Multinomial(top_probs)}}

\* DecodePieces([last, new])[len(DecodePieces([last])):]
Fragment(last, new) ==
    PyFrom(DecodePieces(<<last, new>>), Len(DecodePieces(<<last>>)))

\* sample_next after predict_log_probs returned; in sample_text_iter the
\* generator goes on to yield the fragment
SampleNext ==
    /\ pc = "sample"
    /\ \E sym \in Samples(LastRow(log_probs), top_k) :
        IF op = "sample_next"
        THEN /\ result' = <<sym>>
             /\ pc' = "returned"
             /\ UNCHANGED iter_vars
        ELSE /\ next_token' = sym
             /\ sampled' = Append(sampled, sym)
             /\ fragments' = Append(fragments, Fragment(tokens[Len(tokens)], sym))
             /\ pc' = "yielded"
             /\ UNCHANGED <<init_tokens, result>>
    /\ UNCHANGED <<config, op, args, tok_vars, pred_vars, error>>

(* ------------------------------------------------------------------ *)
(* sample_text_iter                                                    *)
(* ------------------------------------------------------------------ *)
\* a call of sample_text_iter(text, top_k): the generator object is made,
\* its body has not started
CallSampleTextIter ==
    /\ pc = "idle"
    /\ \E t \in Texts : text' = t
    /\ \E k \in TopKs : top_k' = k
    /\ op' = "sample_text_iter"
    /\ pc' = "created"
    /\ UNCHANGED <<config, tok_vars, pred_vars, iter_vars, result, error>>

\* the first next() of the caller: the body starts with tokenize(text)
IterStart ==
    /\ pc = "created"
    /\ lines' = Lines(text)
    /\ i' = 0
    /\ tokens' = <<>>
    /\ pc' = "tokenize"
    /\ UNCHANGED <<config, op, args, eos_at, pred_vars, iter_vars, result, error>>

\* the append left out
HeldNotAppended(held, new) == held

\* the held sequence when the generator is resumed after a yield
HeldAfterResume(held, new) == Append(held, new)

\* a later next() of the caller: the generator resumes after the yield,
\* appends the token and goes round the loop to sample_next(tokens)
IterResume ==
    /\ pc = "yielded"
    /\ Len(sampled) < MaxSteps
    /\ tokens' = HeldAfterResume(tokens, next_token)
    /\ ptokens' = HeldAfterResume(tokens, next_token)
    /\ pc' = "predict"
    /\ UNCHANGED <<config, op, args, lines, i, eos_at, all_xs, idx, mems,
                   all_log_probs, log_probs, calls, n_convert, fwd, iter_vars,
                   result, error>>

(* ------------------------------------------------------------------ *)
(* The specifications                                                  *)
(* ------------------------------------------------------------------ *)
Next ==
    \/ CallTokenize
    \/ TokenizeLine
    \/ TokenizeReturn
    \/ CallPredictLogProbs
    \/ PredictEnter
    \/ PredictChunk
    \/ PredictReturn
    \/ CallNextTopK
    \/ NextTopK
    \/ CallSampleNext
    \/ SampleNext
    \/ CallSampleTextIter
    \/ IterStart
    \/ IterResume

Spec == Init /\ [][Next]_vars

(* ------------------------------------------------------------------ *)
(* Properties of predict_log_probs                                     *)
(* ------------------------------------------------------------------ *)
\* predict_log_probs(ptokens) has returned its matrix log_probs
PredictReturned ==
    \/ pc \in {"top_k", "sample", "yielded"}
    \/ pc = "returned" /\ op \in {"predict_log_probs", "next_top_k", "sample_next"}

\* the forward passes of the current call of predict_log_probs
CallFwd == SelectSeq(fwd, LAMBDA e : e.call = calls)

\* C1: predict_log_probs on n >= 1 tokens returns n rows; the forward passes
\* take consecutive, non-overlapping chunks of tgt_len ids, the last one
\* possibly shorter, that cover every position once; the rows are the chunks'
\* rows in chunk order, so row i belongs to position i
PredictRowsMatchInput ==
    PredictReturned =>
        LET n == Len(ptokens)
            f == CallFwd
        IN  /\ n >= 1
            /\ Len(log_probs) = n
            /\ \A r \in 1..n : Len(log_probs[r]) = VocabSize
            /\ Len(f) >= 1
            /\ \A j \in 1..Len(f) :
                /\ f[j].at = (j - 1) * tgt_len
                /\ f[j].xs = [q \in 1..Len(f[j].xs) |-> all_xs[f[j].at + q]]
                /\ Len(f[j].log_probs) = Len(f[j].xs)
                /\ IF j < Len(f) THEN Len(f[j].xs) = tgt_len
                   ELSE Len(f[j].xs) \in 1..tgt_len
                /\ \A q \in 1..Len(f[j].xs) :
                    log_probs[f[j].at + q] = f[j].log_probs[q]
            /\ Concat([j \in 1..Len(f) |-> f[j].xs]) = ConvertToTensor(ptokens)
            /\ \A r \in 1..n : log_probs[r] = LogProbRow(SubSeq(all_xs, 1, r))

\* a call that took a full chunk and then a shorter last one
PredictRowsWitness ==
    /\ PredictReturned
    /\ Len(CallFwd) = 2
    /\ Len(CallFwd[2].xs) < tgt_len
    /\ Len(log_probs) = 3

\* C2: predict_log_probs on an empty token sequence raises the validation
\* error and has neither converted the tokens nor run the model
EmptyTokensRaise ==
    (/\ op \in {"predict_log_probs", "next_top_k", "sample_next"}
     /\ ptokens = <<>>
     /\ pc \notin {"idle", "predict"}) =>
        /\ pc = "raised"
        /\ error = "ValueError"
        /\ result = <<>>
        /\ n_convert = 0
        /\ calls = 0
        /\ fwd = <<>>

\* the error raised on an empty sequence
EmptyTokensWitness ==
    /\ op = "predict_log_probs"
    /\ ptokens = <<>>
    /\ pc = "raised"
    /\ error = "ValueError"

\* C3: in a call of predict_log_probs the first forward pass gets the empty
\* memory and every later one the memory the pass before it returned; the
\* first pass of a later call gets the empty memory, not the last call's
MemsChained ==
    /\ \A j \in 1..Len(fwd) :
        IF j = 1 \/ fwd[j - 1].call # fwd[j].call
        THEN fwd[j].mems_in = <<>>
        ELSE fwd[j].mems_in = fwd[j - 1].mems_out /\ fwd[j].mems_in # <<>>
    /\ pc = "chunks" =>
        mems = IF idx = 0 THEN <<>> ELSE fwd[Len(fwd)].mems_out

\* sample_text_iter in its second call of predict_log_probs, after a first
\* call of several chunks
MemsChainedWitness ==
    /\ op = "sample_text_iter"
    /\ Len(fwd) >= 4
    /\ fwd[1].call = fwd[2].call
    /\ fwd[Len(fwd) - 1].call = fwd[Len(fwd)].call
    /\ fwd[1].call # fwd[Len(fwd)].call

(* ------------------------------------------------------------------ *)
(* Properties of tokenize                                              *)
(* ------------------------------------------------------------------ *)
\* the pieces of each stripped line of the text, in line order
LinePieces == [j \in 1..Len(Split(text)) |-> EncodeAsPieces(Strip(Split(text)[j]))]

RECURSIVE PiecesUpTo(_)
\* the number of pieces of the first j lines
PiecesUpTo(j) == IF j = 0 THEN 0 ELSE PiecesUpTo(j - 1) + Len(LinePieces[j])

\* toks without the positions in skip
Without(toks, skip) ==
    LET keep == {p \in 1..Len(toks) : p \notin skip}
        nth(q) == CHOOSE p \in keep : Cardinality({r \in keep : r < p}) = q - 1
    IN  [q \in 1..Cardinality(keep) |-> toks[nth(q)]]

\* C6: with add_eos, tokenize on a text of m lines returns the pieces of the
\* stripped lines in order with m - 1 markers, one right after the pieces of
\* each line but the last; without add_eos it inserts no marker
TokenizeInsertsEOS ==
    (op = "tokenize" /\ pc = "returned") =>
        LET m == Len(Split(text))
            toks == result[1]
        IN  /\ Without(toks, eos_at) = Concat(LinePieces)
            /\ \A p \in eos_at : toks[p] = EOS
            /\ IF add_eos
               THEN /\ Cardinality(eos_at) = m - 1
                    /\ eos_at = {PiecesUpTo(j) + j : j \in 1..(m - 1)}
                    /\ Len(toks) = PiecesUpTo(m) + m - 1
               ELSE /\ eos_at = {}
                    /\ toks = Concat(LinePieces)

\* a text of two non-empty lines tokenized with add_eos
TokenizeEOSWitness ==
    /\ op = "tokenize"
    /\ pc = "returned"
    /\ add_eos
    /\ text = <<"a", "\n", "a">>
    /\ result = <<<<<<"_", "a">>, EOS, <<"_", "a">>>>>>

\* C7: with add_double_eos tokenize raises on its first line, whatever the
\* text, and never returns a token sequence
DoubleEOSRaises ==
    (add_double_eos /\ op \in {"tokenize", "sample_text_iter"}) =>
        /\ pc \in {"created", "tokenize", "raised"}
        /\ pc = "tokenize" => (i = 0 /\ Len(lines) >= 1)
        /\ pc = "raised" => error = "AssertionError"
        /\ result = <<>>
        /\ init_tokens = <<>>

\* tokenize of the empty string failing its assertion
DoubleEOSWitness ==
    /\ add_double_eos
    /\ op = "tokenize"
    /\ text = <<>>
    /\ pc = "raised"
    /\ error = "AssertionError"

(* ------------------------------------------------------------------ *)
(* Properties of next_top_k and sample_next                            *)
(* ------------------------------------------------------------------ *)
\* the number of entries of row greater than the entry of index v
Above(row, v) == Cardinality({w \in 0..(Len(row) - 1) : row[w + 1] > row[v + 1]})

\* C4: next_top_k(tokens, k) returns min(k, vocabulary size) entries, the k
\* highest of the last row, in non-increasing order of log-probability
NextTopKReturnsK ==
    (op = "next_top_k" /\ pc = "returned") =>
        LET row == LastRow(log_probs)
            top == result[1]
        IN  /\ Len(top) = Min(top_k, VocabSize)
            /\ \A j \in 1..Len(top) :
                /\ top[j][2] = row[Sym2Idx(top[j][1]) + 1]
                /\ Above(row, Sym2Idx(top[j][1])) < top_k
            /\ \A a, b \in 1..Len(top) : a # b => top[a][1] # top[b][1]
            /\ \A j \in 1..(Len(top) - 1) : top[j][2] >= top[j + 1][2]

\* C5: the symbol sample_next(tokens, top_k) returns is one of the top_k
\* highest entries of the last row
SampleNextInTopK ==
    (op = "sample_next" /\ pc = "returned") =>
        Above(LastRow(log_probs), Sym2Idx(result[1])) < top_k

(* ------------------------------------------------------------------ *)
(* Properties of sample_text_iter                                      *)
(* ------------------------------------------------------------------ *)
\* C8: after N fragments, the decoding of the initial tokens followed by the
\* fragments is the decoding of the initial tokens and the N sampled tokens
\* (stated for top_k >= 1, where the sampling is a top-k sampling)
FragmentsRoundTrip ==
    (op = "sample_text_iter" /\ pc = "yielded" /\ top_k >= 1) =>
        /\ Len(fragments) = Len(sampled)
        /\ DecodePieces(init_tokens[1]) \o Concat(fragments)
               = DecodePieces(init_tokens[1] \o sampled)

\* C9 as stated: when the n-th fragment is delivered the held sequence is
\* the initial tokens and the n tokens sampled so far
HeldHasSampledAtYield ==
    (op = "sample_text_iter" /\ pc = "yielded") =>
        tokens = init_tokens[1] \o sampled

\* C9 amended: when the n-th fragment is delivered the held sequence is the
\* initial tokens and the first n - 1 sampled tokens; the n-th is appended
\* when the generator is resumed, before the next sample is drawn
HeldLagsAtYield ==
    (op = "sample_text_iter" /\ init_tokens # <<>>) =>
        /\ Len(fragments) = Len(sampled)
        /\ pc = "yielded" =>
            /\ Len(sampled) >= 1
            /\ next_token = sampled[Len(sampled)]
            /\ tokens = init_tokens[1] \o SubSeq(sampled, 1, Len(sampled) - 1)
        /\ pc \in {"predict", "chunks", "sample"} =>
            /\ tokens = init_tokens[1] \o sampled
            /\ ptokens = tokens

\* the second fragment delivered: the generator was resumed once
HeldLagsWitness ==
    /\ op = "sample_text_iter"
    /\ pc = "yielded"
    /\ Len(fragments) = 2
    /\ Len(tokens) = Len(init_tokens[1]) + 1

\* C10: when tokenize(text) is empty the first step of sample_text_iter
\* raises the validation error of predict_log_probs: no conversion, no
\* forward pass, no fragment
IterEmptyRaises ==
    (op = "sample_text_iter" /\ init_tokens = <<<<>>>>) =>
        /\ pc \in {"predict", "raised"}
        /\ pc = "raised" => error = "ValueError"
        /\ fragments = <<>>
        /\ sampled = <<>>
        /\ n_convert = 0
        /\ calls = 0
        /\ fwd = <<>>

\* a whitespace-only line given to sample_text_iter
IterEmptyWitness ==
    /\ op = "sample_text_iter"
    /\ text = <<" ">>
    /\ init_tokens = <<<<>>>>
    /\ pc = "raised"
    /\ error = "ValueError"

====
